---- MODULE Spec2Model ----
(***************************************************************************)
(* Notification dispatch and campaign orchestration engine of the          *)
(* MultiChannelNotifier backend (Django views + Celery tasks), modelled    *)
(* as a state machine.  Rows of the database tables are sequences indexed  *)
(* by primary key; Celery messages are a bag; every HTTP handler and task  *)
(* is an action (split into steps where other workers can interleave).     *)
(*                                                                         *)
(* Two facts of the source shape most of the behaviour:                    *)
(*  - NotificationStatus is a module-level class                           *)
(*    (notifications/models.py:16); class Notification                     *)
(*    (notifications/models.py:32-90) and class BulkNotification have no   *)
(*    attribute of that name, so every evaluation of                       *)
(*    `Notification.NotificationStatus.X` raises AttributeError.           *)
(*  - CampaignStatus is a module-level class (campaigns/models.py:8);      *)
(*    class Campaign (campaigns/models.py:17-94) has no attribute of that   *)
(*    name, so every evaluation of `Campaign.CampaignStatus.X` raises      *)
(*    AttributeError.                                                      *)
(***************************************************************************)
EXTENDS Integers, Sequences, FiniteSets, Bags, TLC

\* ------------------------------------------------------------------------
\* Bounds of the model
\* ------------------------------------------------------------------------
MaxNotifications == 2
MaxInFlight == 2
MaxCampaigns == 1
MaxInput == 3
MaxRate == 2
MaxPauses == 1
MaxPriority == 2
MaxUsage == 3
MaxDay == 1
MaxTime == 2
MaxBulk == 2

\* ------------------------------------------------------------------------
\* Program constants
\* ------------------------------------------------------------------------
\* @shared_task(bind=True, max_retries=3)
TaskMaxRetries == 3
\* Notification.max_retries default
DefaultMaxRetries == 3
\* ProviderRateThrottle: rate_per_minute=100, self.window = 60
rate_per_minute == 100
ProviderWindow == 60
\* APIKeyRateThrottle: rate_per_hour=1000, self.window = 3600
rate_per_hour == 1000
APIKeyWindow == 3600

\* Input domains
Merchants == {1, 2}
\* request bodies of send_notification: idempotency_key 0 stands for "not
\* supplied" (NULL in the table), campaign 0 for "no metadata['campaign_id']"
SendRequests ==
    { [merchant |-> 1, key |-> 0, campaign |-> 0],
      [merchant |-> 1, key |-> 1, campaign |-> 0],
      [merchant |-> 2, key |-> 1, campaign |-> 0] }
ProviderResults == {"no_provider", "success", "failure"}

VARIABLES
    notifications,   \* table notifications: Seq of rows, id = index
    events,          \* table notification_events: events[id] = Seq of event_type
    requests,        \* bag of send_notification requests between is_valid() and create()
    queue,           \* bag of Celery messages for send_notification_task
    running,         \* bag of send_notification_task executions in progress
    provider_calls,  \* provider_calls[id] = [success |-> n, failure |-> n] results of provider.send
    attempts,        \* attempts[id] = [success |-> n, failure |-> n] dispatches that found a provider,
                     \* by the answer that provider gives when it is sent to
    campaigns,       \* table campaigns: Seq of rows, id = index
    campaign_events, \* table campaign_events: campaign_events[id] = Seq of event_type
    recipients,      \* table campaign_recipients: Seq of rows
    metrics_running, \* bag of update_campaign_metrics_task executions in progress
    pausing,         \* bag of pause_campaign_task executions in progress
    cache,           \* django cache: cache[key] = [count, ttl], ttl = 0 for a missing key
    rate,            \* rate[key]: the limit the throttle of that key was constructed with
    call,            \* the is_allowed call in progress or last returned
    admitted,        \* admitted[key]: calls that returned True since the key was last created
    expired,         \* expired[key]: the key's counter has expired at least once
    callers,         \* bag of is_allowed calls of concurrent workers between the test and the increment
    settings,        \* table merchant_settings: settings[merchant] = row
    today,           \* timezone.now().date(), as a day number
    now,             \* timezone.now(), as a tick number
    usage_running,   \* bag of update_merchant_usage executions that hold merchant.settings
    usage_done,      \* usage_done[merchant][channel]: update_merchant_usage calls that returned
    selection,       \* arguments and result of the last get_provider_for_channel call
    bulk_notifications, \* table bulk_notifications: Seq of rows, id = index
    bulk_queue,      \* bag of Celery messages for process_bulk_notification_task
    outcome          \* the response / task result of the last step taken

notification_vars == <<notifications, events, requests, queue, running, provider_calls, attempts>>
campaign_vars == <<campaigns, campaign_events, recipients, metrics_running, pausing>>
throttle_vars == <<cache, rate, call, admitted, expired, callers>>
account_vars == <<settings, today, now, usage_running, usage_done, selection>>
bulk_vars == <<bulk_notifications, bulk_queue>>
vars == <<notification_vars, campaign_vars, throttle_vars, account_vars, bulk_vars, outcome>>

NotificationIds == 1..Len(notifications)

\* op: handler or task; result: HTTP status or task result; id: the row the
\* step was about (0: none); pre: that row's status before the step
Outcome(op, result, id, pre, merchant, key) ==
    [op |-> op, result |-> result, id |-> id, pre |-> pre,
     merchant |-> merchant, key |-> key]

\* ------------------------------------------------------------------------
\* notifications/serializers.py
\* ------------------------------------------------------------------------
\* Notification.objects.filter(merchant=merchant, idempotency_key=value).first()
ExistingNotification(rows, merchant, key) ==
    LET hits == {i \in 1..Len(rows) :
                    rows[i].merchant = merchant /\ rows[i].idempotency_key = key}
    IN  IF hits = {} THEN 0 ELSE CHOOSE i \in hits : \A j \in hits : i <= j

\* validate_idempotency_key without the lookup: existing_notification never set
validate_idempotency_key_no_lookup(rows, merchant, key) == 0

\* SendNotificationSerializer.validate_idempotency_key: the id stored in
\* serializer.existing_notification, 0 when the attribute is not set
validate_idempotency_key(rows, merchant, key) ==
    IF key # 0 THEN ExistingNotification(rows, merchant, key) ELSE 0

\* UniqueConstraint(fields=['merchant','idempotency_key'],
\*                  condition=Q(idempotency_key__isnull=False))
unique_merchant_idempotency(rows, merchant, key) ==
    key = 0 \/ ExistingNotification(rows, merchant, key) = 0

\* ------------------------------------------------------------------------
\* notifications/views.py
\* ------------------------------------------------------------------------
NewNotification(merchant, key, campaign) ==
    [merchant |-> merchant, idempotency_key |-> key, status |-> "pending",
     retry_count |-> 0, max_retries |-> DefaultMaxRetries,
     campaign_id |-> campaign, scheduled_at |-> 0, bulk_notification_id |-> 0]

\* send_notification, first half: serializer.is_valid() and the
\* existing_notification short-circuit (views.py:32-41, 65)
send_notification_validate(merchant, key, campaign, valid) ==
    /\ IF ~valid
       THEN \* serializer.errors -> 400
            /\ outcome' = Outcome("send_notification", "400", 0, "", merchant, key)
            /\ UNCHANGED requests
       ELSE LET existing == validate_idempotency_key(notifications, merchant, key)
            IN  IF existing # 0
                THEN /\ outcome' = Outcome("send_notification", "200", existing, "", merchant, key)
                     /\ UNCHANGED requests
                ELSE /\ BagCardinality(requests) < MaxInFlight
                     /\ requests' = requests (+) SetToBag({[merchant |-> merchant, key |-> key,
                                                            campaign |-> campaign]})
                     /\ outcome' = Outcome("send_notification", "validated", 0, "", merchant, key)
    /\ UNCHANGED <<notifications, events, queue, running, provider_calls, attempts>>

\* send_notification, second half: create the row and the 'created' event
\* in one transaction, then send_notification_task.delay (views.py:43-63)
send_notification_create(r) ==
    /\ BagIn(r, requests)
    /\ requests' = requests (-) SetToBag({r})
    /\ IF unique_merchant_idempotency(notifications, r.merchant, r.key)
       THEN /\ Len(notifications) < MaxNotifications
            /\ notifications' = Append(notifications, NewNotification(r.merchant, r.key, r.campaign))
            /\ events' = Append(events, <<"created">>)
            /\ provider_calls' = Append(provider_calls, [success |-> 0, failure |-> 0])
            /\ attempts' = Append(attempts, [success |-> 0, failure |-> 0])
            /\ queue' = queue (+) SetToBag({[id |-> Len(notifications) + 1, retries |-> 0]})
            /\ outcome' = Outcome("send_notification", "201", Len(notifications) + 1, "", r.merchant, r.key)
       ELSE \* IntegrityError leaves the view uncaught: 500, transaction rolled back
            /\ outcome' = Outcome("send_notification", "500", 0, "", r.merchant, r.key)
            /\ UNCHANGED <<notifications, events, provider_calls, attempts, queue>>
    /\ UNCHANGED running

\* `value <= timezone.now()` rejected (serializers.py:82-86)
validate_scheduled_at(value) == value > now

\* a view that queues the dispatch of the row it created, as
\* send_notification does
schedule_notification_delay(messages, id) ==
    messages (+) SetToBag({[id |-> id, retries |-> 0]})

\* the Celery messages after schedule_notification has run (views.py:77-97):
\* the view has no send_notification_task.delay and no apply_async call,
\* so the messages are those there were
schedule_notification_queue(messages, id) == messages

\* schedule_notification (views.py:68-99): serializer.is_valid(), then the
\* row (status pending by default, scheduled_at set) and its 'scheduled'
\* event in one transaction.  ScheduleNotificationSerializer takes an
\* idempotency_key and does not look it up: a repeated key violates the
\* uniqueness constraint, the IntegrityError leaves the view uncaught
schedule_notification(merchant, key, scheduled_at) ==
    /\ IF ~validate_scheduled_at(scheduled_at)
       THEN /\ outcome' = Outcome("schedule_notification", "400", 0, "", merchant, key)
            /\ UNCHANGED <<notifications, events, provider_calls, attempts, queue>>
       ELSE IF unique_merchant_idempotency(notifications, merchant, key)
       THEN /\ Len(notifications) < MaxNotifications
            /\ notifications' = Append(notifications,
                   [NewNotification(merchant, key, 0) EXCEPT !.scheduled_at = scheduled_at])
            /\ events' = Append(events, <<"scheduled">>)
            /\ provider_calls' = Append(provider_calls, [success |-> 0, failure |-> 0])
            /\ attempts' = Append(attempts, [success |-> 0, failure |-> 0])
            /\ queue' = schedule_notification_queue(queue, Len(notifications) + 1)
            /\ outcome' = Outcome("schedule_notification", "201", Len(notifications) + 1, "", merchant, key)
       ELSE /\ outcome' = Outcome("schedule_notification", "500", 0, "", merchant, key)
            /\ UNCHANGED <<notifications, events, provider_calls, attempts, queue>>
    /\ UNCHANGED <<requests, running>>

\* cancel_notification (views.py:102-133): get_object_or_404, then the
\* status test at line 115 evaluates Notification.NotificationStatus
cancel_notification(merchant, id) ==
    /\ IF id \in NotificationIds /\ notifications[id].merchant = merchant
       THEN outcome' = Outcome("cancel_notification", "500", id, notifications[id].status, merchant, 0)
       ELSE outcome' = Outcome("cancel_notification", "404", id, "", merchant, 0)
    /\ UNCHANGED <<notifications, events, requests, queue, running, provider_calls, attempts>>

\* ------------------------------------------------------------------------
\* notifications/tasks.py
\* ------------------------------------------------------------------------
\* handle_notification_failure (tasks.py:301-315): its first statement
\* evaluates Notification.NotificationStatus.FAILED and raises before the
\* save and before the 'failed' event; the rows are returned as they were
handle_notification_failure(rows, id) == rows

\* the entry test passing whatever the status
is_pending_always(row) == TRUE
\* `notification.status != NotificationStatus.PENDING` (line 26), negated;
\* NotificationStatus is the imported module-level class here
is_pending(row) == row.status = "pending"

\* send_notification_task, lines 23-28: load the row, skip unless pending
send_notification_task_get(m) ==
    /\ BagIn(m, queue)
    /\ queue' = queue (-) SetToBag({m})
    /\ IF ~is_pending(notifications[m.id])
       THEN /\ outcome' = Outcome("send_notification_task", "skipped", m.id,
                                  notifications[m.id].status, 0, 0)
            /\ UNCHANGED running
       ELSE /\ running' = running (+) SetToBag({[id |-> m.id, retries |-> m.retries,
                                                 pc |-> "loaded", row |-> notifications[m.id]]})
            /\ outcome' = Outcome("send_notification_task", "", 0, "", 0, 0)
    /\ UNCHANGED <<notifications, events, requests, provider_calls, attempts>>

\* a transition that records nothing
NotificationEvent_skipped(log, event_type) == log

\* NotificationEvent.objects.create(notification=..., event_type=...)
\* (models.py:93-108): one more row in the notification's events; no code
\* of the engine updates or deletes a NotificationEvent
NotificationEvent_create(log, event_type) == Append(log, event_type)

\* send_notification_task, lines 31-39: save status processing from the
\* loaded object, append the processing_started event
send_notification_task_processing(t) ==
    /\ BagIn(t, running) /\ t.pc = "loaded"
    /\ notifications' = [notifications EXCEPT ![t.id] = [t.row EXCEPT !.status = "processing"]]
    /\ events' = [events EXCEPT ![t.id] = NotificationEvent_create(@, "processing_started")]
    /\ running' = (running (-) SetToBag({t}))
                    (+) SetToBag({[t EXCEPT !.pc = "processing",
                                            !.row = [t.row EXCEPT !.status = "processing"]]})
    /\ outcome' = Outcome("send_notification_task", "", 0, "", 0, 0)
    /\ UNCHANGED <<requests, queue, provider_calls, attempts>>

\* create_provider_instance (tasks.py:285-298): its first test evaluates
\* Notification.NotificationChannel.EMAIL; NotificationChannel is a
\* module-level class (models.py:9), so the call raises AttributeError and
\* no provider instance is ever returned, whatever the channel and the row
create_provider_instance(channel, provider_config) == "AttributeError"

\* send_notification_task, lines 41-90: provider lookup, then the handler.
\* result is what the Provider table holds for the channel: no active row
\* ("no_provider"), or an active row of a provider that answers a send with
\* success or with failure.  Every path raises inside the try block:
\*   no active row -> get_provider_for_channel returns None, Exception at
\*                    line 44;
\*   an active row -> get_provider_for_channel calls create_provider_instance
\*                    (lines 266, 278), whose AttributeError leaves line 42.
\* provider.send (line 47) and the success and failure branches (lines
\* 49-75) are not reached.  The handler at lines 79-86 calls
\* handle_notification_failure (its AttributeError is swallowed by the bare
\* except) and lines 89-90 re-queue the task through self.retry while
\* request.retries < max_retries.
send_notification_task_send(t, result) ==
    /\ BagIn(t, running) /\ t.pc = "processing"
    /\ running' = running (-) SetToBag({t})
    /\ LET raised == IF result = "no_provider" THEN "Exception"
                      ELSE create_provider_instance("email", result)
       IN  raised \in {"Exception", "AttributeError"}
    /\ UNCHANGED provider_calls
    /\ attempts' =
         IF result = "no_provider" THEN attempts
         ELSE [attempts EXCEPT ![t.id][result] = @ + 1]
    /\ notifications' = handle_notification_failure(notifications, t.id)
    /\ IF t.retries < TaskMaxRetries
       THEN queue' = queue (+) SetToBag({[id |-> t.id, retries |-> t.retries + 1]})
       ELSE queue' = queue
    /\ outcome' = Outcome("send_notification_task", result, t.id, "", 0, 0)
    /\ UNCHANGED <<events, requests>>

\* process_scheduled_notifications (tasks.py:159-177): building the filter
\* at line 166 evaluates Notification.NotificationStatus.PENDING and raises
\* before any row is read and before any send_notification_task.delay; id
\* is a pending notification that is due at `now`, 0 when there is none
process_scheduled_notifications(id) ==
    /\ id # 0 => (id \in NotificationIds /\ notifications[id].status = "pending")
    /\ outcome' = Outcome("process_scheduled_notifications", "AttributeError", id, "", 0, 0)
    /\ UNCHANGED <<notifications, events, requests, queue, running, provider_calls, attempts>>

\* retry_failed_notifications (tasks.py:180-207): building the filter at
\* line 186 evaluates Notification.NotificationStatus.FAILED and raises
\* before any row is read; the task fails without touching the tables
retry_failed_notifications ==
    /\ outcome' = Outcome("retry_failed_notifications", "AttributeError", 0, "", 0, 0)
    /\ UNCHANGED <<notifications, events, requests, queue, running, provider_calls, attempts>>

\* ------------------------------------------------------------------------
\* common/throttling.py
\* ------------------------------------------------------------------------
\* one ProviderRateThrottle and one APIKeyRateThrottle, by cache_key
Throttles ==
    { [cache_key |-> "provider_rate_email", class |-> "ProviderRateThrottle",
       default_rate |-> rate_per_minute, window |-> ProviderWindow],
      [cache_key |-> "api_key_rate_k1", class |-> "APIKeyRateThrottle",
       default_rate |-> rate_per_hour, window |-> APIKeyWindow] }
CacheKeys == {th.cache_key : th \in Throttles}
Throttle(k) == CHOOSE th \in Throttles : th.cache_key = k

\* seconds that may pass between two cache operations
Ticks == {30, 1800}

\* cache.get(cache_key, 0)
cache_get(k) == IF cache[k].ttl > 0 THEN cache[k].count ELSE 0

\* cache.add(cache_key, 0, self.window) followed by cache.incr(cache_key):
\* add stores 0 with the window as TTL only when the key is missing, incr
\* adds one and keeps the TTL.  The except branch (incr raising ValueError
\* on a key that vanished after add) stores 1 with the window as TTL, which
\* is the entry add and incr produce on a missing key.
cache_add_incr(k) ==
    IF cache[k].ttl > 0
    THEN [cache EXCEPT ![k].count = @ + 1]
    ELSE [cache EXCEPT ![k] = [count |-> 1, ttl |-> Throttle(k).window]]

\* the limit test with > in place of >=
over_limit_strict(current_count, limit) == current_count > limit
\* `if current_count >= self.rate_per_minute` / `>= self.rate_per_hour`
over_limit(current_count, limit) == current_count >= limit

\* is_allowed, lines 62-66 / 96-100: read the counter, return False when it
\* has reached the limit.  Calls are sequential: a call starts when the
\* previous one has returned.
is_allowed_get(k) ==
    LET current_count == cache_get(k)
    IN  /\ call.pc # "checked"
        /\ IF over_limit(current_count, rate[k])
           THEN call' = [key |-> k, pc |-> "returned",
                         current_count |-> current_count, result |-> FALSE]
           ELSE call' = [key |-> k, pc |-> "checked",
                         current_count |-> current_count, result |-> FALSE]
        /\ UNCHANGED <<cache, rate, admitted, expired, callers>>
        /\ UNCHANGED <<notification_vars, campaign_vars, account_vars, bulk_vars, outcome>>

\* is_allowed, lines 68-75 / 102-109: increment the counter, return True
is_allowed_incr ==
    /\ call.pc = "checked"
    /\ cache' = cache_add_incr(call.key)
    /\ admitted' = [admitted EXCEPT ![call.key] =
                        IF cache[call.key].ttl > 0 THEN @ + 1 ELSE 1]
    /\ call' = [call EXCEPT !.pc = "returned", !.result = TRUE]
    /\ UNCHANGED <<rate, expired, callers>>
    /\ UNCHANGED <<notification_vars, campaign_vars, account_vars, bulk_vars, outcome>>

\* d seconds pass: every TTL runs down, a key whose TTL is used up is gone
Advance(d) ==
    /\ cache' = [k \in CacheKeys |->
                    IF cache[k].ttl > d
                    THEN [cache[k] EXCEPT !.ttl = @ - d]
                    ELSE [count |-> 0, ttl |-> 0]]
    /\ expired' = [k \in CacheKeys |->
                    expired[k] \/ (cache[k].ttl > 0 /\ cache[k].ttl <= d)]
    /\ admitted' = [k \in CacheKeys |-> IF cache[k].ttl > d THEN admitted[k] ELSE 0]
    /\ UNCHANGED <<rate, call, callers>>
    /\ UNCHANGED <<notification_vars, campaign_vars, account_vars, bulk_vars, outcome>>

\* is_allowed called by several workers at once: each call is the same two
\* cache operations, and nothing in is_allowed (no lock, no cache.incr
\* result test) keeps another worker's call from running between them.
\* Lines 62-66 / 96-100 for one of the workers:
is_allowed_get_concurrent(k) ==
    LET current_count == cache_get(k)
    IN  /\ BagCardinality(callers) < MaxInFlight
        /\ IF over_limit(current_count, rate[k])
           THEN /\ callers' = callers
                /\ outcome' = Outcome("is_allowed", "False", 0, "", 0, 0)
           ELSE /\ callers' = callers (+)
                       SetToBag({[key |-> k, current_count |-> current_count]})
                /\ outcome' = Outcome("is_allowed", "checked", 0, "", 0, 0)
        /\ UNCHANGED <<cache, rate, call, admitted, expired>>
        /\ UNCHANGED <<notification_vars, campaign_vars, account_vars, bulk_vars>>

\* lines 68-75 / 102-109 for one of the workers
is_allowed_incr_concurrent(c) ==
    /\ BagIn(c, callers)
    /\ callers' = callers (-) SetToBag({c})
    /\ cache' = cache_add_incr(c.key)
    /\ admitted' = [admitted EXCEPT ![c.key] =
                        IF cache[c.key].ttl > 0 THEN @ + 1 ELSE 1]
    /\ outcome' = Outcome("is_allowed", "True", 0, "", 0, 0)
    /\ UNCHANGED <<rate, call, expired>>
    /\ UNCHANGED <<notification_vars, campaign_vars, account_vars, bulk_vars>>

\* ------------------------------------------------------------------------
\* accounts/models.py, and the functions of notifications/tasks.py that read
\* and write the merchant settings and the Provider table
\* ------------------------------------------------------------------------
Channels == {"email", "sms"}
ProviderNames == {"sendgrid", "mailgun", "twilio"}
\* a merchant's preferred_<channel>_provider: a name, or blank
PreferredNames == ProviderNames \cup {""}

\* the Provider tables: name is unique, so a table has at most one row per
\* name; each row has a channel, is_active and a priority
ProviderTables ==
    { { [name |-> n, channel |-> f[n].channel, is_active |-> f[n].is_active,
         priority |-> f[n].priority] : n \in {x \in ProviderNames : f[x].exists} } :
      f \in [ProviderNames -> [exists : BOOLEAN, channel : Channels,
                               is_active : BOOLEAN, priority : 1..MaxPriority]] }

\* Provider.objects.get(name=preferred_provider, channel=channel,
\* is_active=True), lines 261-265: the row, or DoesNotExist (the empty set)
preferred_config(table, channel, preferred_provider) ==
    {p \in table : p.name = preferred_provider /\ p.channel = channel /\ p.is_active}

\* Provider.objects.filter(channel=channel, is_active=True).first(), lines
\* 272-275, under Meta.ordering = ['priority']: a row of the least priority
\* value; rows of equal priority come in an order the database chooses
first_config(table, channel) ==
    LET active == {p \in table : p.channel = channel /\ p.is_active}
    IN  {p \in active : \A q \in active : p.priority <= q.priority}

\* the rows get_provider_for_channel may hand to create_provider_instance
provider_config(table, channel, preferred_provider) ==
    IF preferred_provider # "" /\ preferred_config(table, channel, preferred_provider) # {}
    THEN preferred_config(table, channel, preferred_provider)
    ELSE first_config(table, channel)

\* get_provider_for_channel(channel, merchant), lines 247-282, called with
\* the Provider table and the merchant's preference as they are stored:
\* returns None when no row is found, and otherwise whatever
\* create_provider_instance does with the row
get_provider_for_channel(table, channel, preferred_provider) ==
    /\ IF provider_config(table, channel, preferred_provider) = {}
       THEN selection' = [table |-> table, channel |-> channel,
                          preferred |-> preferred_provider,
                          config |-> {}, result |-> "None"]
       ELSE \E c \in provider_config(table, channel, preferred_provider) :
               selection' = [table |-> table, channel |-> channel,
                             preferred |-> preferred_provider,
                             config |-> {c},
                             result |-> create_provider_instance(channel, c)]
    /\ outcome' = Outcome("get_provider_for_channel", "", 0, "", 0, 0)
    /\ UNCHANGED <<settings, today, now, usage_running, usage_done>>

\* a MerchantSettings row as accounts/serializers.py:24 creates it
NewSettings ==
    [preferred_email_provider |-> "sendgrid", preferred_sms_provider |-> "twilio",
     email_sent_today |-> 0, sms_sent_today |-> 0, usage_reset_date |-> 0]

\* update_merchant_usage, line 322: merchant.settings loads the row, while
\* fewer than MaxUsage calls have been made
update_merchant_usage_get(merchant, channel) ==
    /\ BagCardinality(usage_running) < MaxInFlight
    /\ BagCardinality(usage_running)
         + usage_done[1]["email"] + usage_done[1]["sms"]
         + usage_done[2]["email"] + usage_done[2]["sms"] < MaxUsage
    /\ usage_running' = usage_running (+)
          SetToBag({[merchant |-> merchant, channel |-> channel,
                     settings |-> settings[merchant]]})
    /\ outcome' = Outcome("update_merchant_usage", "loaded", 0, "", merchant, 0)
    /\ UNCHANGED <<settings, today, now, usage_done, selection>>

\* the counter field `<channel>_sent_today`
sent_today(row, channel) ==
    IF channel = "email" THEN row.email_sent_today ELSE row.sms_sent_today

\* update_merchant_usage, lines 325-335: reset the loaded row on a new day,
\* add one to the loaded counter, and save the loaded row as a whole
update_merchant_usage_save(u) ==
    LET reset == IF u.settings.usage_reset_date < today
                 THEN [u.settings EXCEPT !.email_sent_today = 0,
                                         !.sms_sent_today = 0,
                                         !.usage_reset_date = today]
                 ELSE u.settings
        current_count == sent_today(reset, u.channel)
        saved == IF u.channel = "email"
                 THEN [reset EXCEPT !.email_sent_today = current_count + 1]
                 ELSE [reset EXCEPT !.sms_sent_today = current_count + 1]
    IN  /\ BagIn(u, usage_running)
        /\ usage_running' = usage_running (-) SetToBag({u})
        /\ settings' = [settings EXCEPT ![u.merchant] = saved]
        /\ usage_done' = [usage_done EXCEPT ![u.merchant][u.channel] = @ + 1]
        /\ outcome' = Outcome("update_merchant_usage", "saved", 0, "", u.merchant, 0)
        /\ UNCHANGED <<today, now, selection>>

\* midnight passes
NextDay ==
    /\ today < MaxDay
    /\ today' = today + 1
    /\ outcome' = Outcome("NextDay", "", 0, "", 0, 0)
    /\ UNCHANGED <<settings, now, usage_running, usage_done, selection>>

InitAccounts ==
    /\ settings = [m \in Merchants |-> NewSettings]
    /\ today = 0
    /\ now = 0
    /\ usage_running = EmptyBag
    /\ usage_done = [m \in Merchants |-> [c \in Channels |-> 0]]

\* ------------------------------------------------------------------------
\* Specification of the notification engine
\* ------------------------------------------------------------------------
InitEngine ==
    /\ InitAccounts
    /\ notifications = <<>>
    /\ events = <<>>
    /\ requests = EmptyBag
    /\ queue = EmptyBag
    /\ running = EmptyBag
    /\ provider_calls = <<>>
    /\ attempts = <<>>
    /\ campaigns = <<>>
    /\ campaign_events = <<>>
    /\ recipients = <<>>
    /\ metrics_running = EmptyBag
    /\ pausing = EmptyBag
    /\ bulk_notifications = <<>>
    /\ bulk_queue = EmptyBag
    /\ outcome = Outcome("init", "", 0, "", 0, 0)

InitCache ==
    /\ cache = [k \in CacheKeys |-> [count |-> 0, ttl |-> 0]]
    /\ call = [key |-> "", pc |-> "idle", current_count |-> 0, result |-> FALSE]
    /\ admitted = [k \in CacheKeys |-> 0]
    /\ expired = [k \in CacheKeys |-> FALSE]
    /\ callers = EmptyBag

\* no get_provider_for_channel call has been made
NoSelection ==
    [table |-> {}, channel |-> "", preferred |-> "", config |-> {}, result |-> ""]

\* the throttles are built with the constructors' default rates
Init ==
    /\ InitEngine
    /\ InitCache
    /\ selection = NoSelection
    /\ rate = [k \in CacheKeys |-> Throttle(k).default_rate]

Next ==
    \/ \E r \in SendRequests, valid \in BOOLEAN :
          send_notification_validate(r.merchant, r.key, r.campaign, valid) /\ UNCHANGED <<campaign_vars, throttle_vars, account_vars, bulk_vars>>
    \/ \E r \in BagToSet(requests) : send_notification_create(r) /\ UNCHANGED <<campaign_vars, throttle_vars, account_vars, bulk_vars>>
    \/ \E m \in Merchants, id \in 1..MaxNotifications :
          cancel_notification(m, id) /\ UNCHANGED <<campaign_vars, throttle_vars, account_vars, bulk_vars>>
    \/ \E m \in BagToSet(queue) : send_notification_task_get(m) /\ UNCHANGED <<campaign_vars, throttle_vars, account_vars, bulk_vars>>
    \/ \E t \in BagToSet(running) : send_notification_task_processing(t) /\ UNCHANGED <<campaign_vars, throttle_vars, account_vars, bulk_vars>>
    \/ \E t \in BagToSet(running), result \in ProviderResults :
          send_notification_task_send(t, result) /\ UNCHANGED <<campaign_vars, throttle_vars, account_vars, bulk_vars>>
    \/ retry_failed_notifications /\ UNCHANGED <<campaign_vars, throttle_vars, account_vars, bulk_vars>>
    \/ \E id \in 0..MaxNotifications :
          process_scheduled_notifications(id) /\ UNCHANGED <<campaign_vars, throttle_vars, account_vars, bulk_vars>>

Spec == Init /\ [][Next]_vars

\* ------------------------------------------------------------------------
\* Specification of scheduled notifications: schedule_notification next to
\* immediate sends, the dispatch workers, the promotion sweep and a clock
\* ------------------------------------------------------------------------
\* request bodies of schedule_notification
ScheduleRequests ==
    { [merchant |-> 1, key |-> 0], [merchant |-> 1, key |-> 1] }

\* time passes
Tick ==
    /\ now < MaxTime
    /\ now' = now + 1
    /\ outcome' = Outcome("Tick", "", 0, "", 0, 0)
    /\ UNCHANGED <<settings, today, usage_running, usage_done, selection>>

\* the scheduled notifications that are due: scheduled_at__lte=now,
\* scheduled_at__isnull=False (tasks.py:167-168)
Due(id) ==
    /\ id \in NotificationIds
    /\ notifications[id].scheduled_at # 0
    /\ notifications[id].scheduled_at <= now

NextSchedule ==
    \/ \E r \in ScheduleRequests, scheduled_at \in 0..(MaxTime + 1) :
          schedule_notification(r.merchant, r.key, scheduled_at) /\ UNCHANGED <<campaign_vars, throttle_vars, account_vars, bulk_vars>>
    \/ \E r \in SendRequests :
          send_notification_validate(r.merchant, r.key, r.campaign, TRUE) /\ UNCHANGED <<campaign_vars, throttle_vars, account_vars, bulk_vars>>
    \/ \E r \in BagToSet(requests) : send_notification_create(r) /\ UNCHANGED <<campaign_vars, throttle_vars, account_vars, bulk_vars>>
    \/ \E m \in BagToSet(queue) : send_notification_task_get(m) /\ UNCHANGED <<campaign_vars, throttle_vars, account_vars, bulk_vars>>
    \/ \E t \in BagToSet(running) : send_notification_task_processing(t) /\ UNCHANGED <<campaign_vars, throttle_vars, account_vars, bulk_vars>>
    \/ \E t \in BagToSet(running), result \in ProviderResults :
          send_notification_task_send(t, result) /\ UNCHANGED <<campaign_vars, throttle_vars, account_vars, bulk_vars>>
    \/ \E id \in 0..MaxNotifications :
          (id # 0 => Due(id)) /\ process_scheduled_notifications(id) /\ UNCHANGED <<campaign_vars, throttle_vars, account_vars, bulk_vars>>
    \/ Tick /\ UNCHANGED <<notification_vars, campaign_vars, throttle_vars, bulk_vars>>

SpecSchedule == Init /\ [][NextSchedule]_vars

\* ------------------------------------------------------------------------
\* Bulk notification jobs (notifications/views.py, notifications/tasks.py)
\* ------------------------------------------------------------------------
BulkIds == 1..Len(bulk_notifications)

\* the row BulkNotificationSerializer.create stores for a body with one
\* recipient; status is read-only in the serializer and defaults to pending
NewBulkNotification(merchant) ==
    [merchant |-> merchant, status |-> "pending", processed_count |-> 0]

\* send_bulk_notification (views.py:151-179): serializer.save(), then
\* process_bulk_notification_task.delay or apply_async(eta=scheduled_at)
send_bulk_notification(merchant, valid) ==
    /\ IF ~valid
       THEN /\ outcome' = Outcome("send_bulk_notification", "400", 0, "", merchant, 0)
            /\ UNCHANGED <<bulk_notifications, bulk_queue>>
       ELSE /\ Len(bulk_notifications) < MaxBulk
            /\ bulk_notifications' = Append(bulk_notifications, NewBulkNotification(merchant))
            /\ bulk_queue' = bulk_queue (+) SetToBag({[id |-> Len(bulk_notifications) + 1]})
            /\ outcome' = Outcome("send_bulk_notification", "201",
                                  Len(bulk_notifications) + 1, "", merchant, 0)
    /\ UNCHANGED notification_vars

\* cancel_bulk_notification (views.py:228-251): get_object_or_404, then the
\* status test at line 240 evaluates BulkNotification.NotificationStatus,
\* which the model class does not have (NotificationStatus is module-level,
\* models.py:16): AttributeError, 500, before the status is set or saved
cancel_bulk_notification(merchant, id) ==
    /\ IF id \in BulkIds /\ bulk_notifications[id].merchant = merchant
       THEN outcome' = Outcome("cancel_bulk_notification", "500", id,
                               bulk_notifications[id].status, merchant, 0)
       ELSE outcome' = Outcome("cancel_bulk_notification", "404", id, "", merchant, 0)
    /\ UNCHANGED <<bulk_notifications, bulk_queue>>
    /\ UNCHANGED notification_vars

\* an entry test that lets every job through
bulk_entry_test_passed(row) == "pending"

\* the entry test of process_bulk_notification_task (tasks.py:102):
\* BulkNotification.NotificationStatus.PENDING raises AttributeError,
\* whatever the status of the job
bulk_entry_test(row) == "AttributeError"

\* tasks.py:115-141 for a job with one recipient row: one Notification
\* whose metadata names the job
bulk_children(row, id) ==
    <<[NewNotification(row.merchant, 0, 0) EXCEPT !.bulk_notification_id = id]>>

\* process_bulk_notification_task (tasks.py:93-156).  The AttributeError of
\* the entry test is caught at line 155 and logged: no status is stored, no
\* Notification is created, nothing is queued.  The branch below it is the
\* text of lines 106-149: status processing saved, one Notification per
\* recipient row (Notification.objects.create records no event), a
\* dispatch queued for each, processed_count saved.  outcome.key is 1 when
\* the run directly follows another run for the same job.
process_bulk_notification_task(m) ==
    LET row == bulk_notifications[m.id]
        test == bulk_entry_test(row)
        created == bulk_children(row, m.id)
        again == IF outcome.op = "process_bulk_notification_task" /\ outcome.id = m.id
                 THEN 1 ELSE 0
    IN  /\ BagIn(m, bulk_queue)
        /\ bulk_queue' = bulk_queue (-) SetToBag({m})
        /\ IF test = "pending"
           THEN /\ Len(notifications) + Len(created) <= MaxNotifications
                /\ bulk_notifications' = [bulk_notifications EXCEPT ![m.id] =
                       [row EXCEPT !.status = "processing", !.processed_count = Len(created)]]
                /\ notifications' = notifications \o created
                /\ events' = events \o [i \in 1..Len(created) |-> <<>>]
                /\ provider_calls' = provider_calls
                       \o [i \in 1..Len(created) |-> [success |-> 0, failure |-> 0]]
                /\ attempts' = attempts
                       \o [i \in 1..Len(created) |-> [success |-> 0, failure |-> 0]]
                /\ queue' = queue (+) SetToBag({[id |-> Len(notifications) + i, retries |-> 0] :
                                                   i \in 1..Len(created)})
                /\ outcome' = Outcome("process_bulk_notification_task", "processed",
                                      m.id, row.status, 0, again)
                /\ UNCHANGED <<requests, running>>
           ELSE /\ outcome' = Outcome("process_bulk_notification_task", test,
                                      m.id, row.status, 0, again)
                /\ UNCHANGED bulk_notifications
                /\ UNCHANGED notification_vars

\* process_bulk_notification_task.delay(bulk_notification_id) for a stored
\* job: a worker runs any message it is handed, and a message may be
\* delivered again
process_bulk_notification_task_delay(id) ==
    /\ id \in BulkIds
    /\ BagCardinality(bulk_queue) < MaxInFlight
    /\ bulk_queue' = bulk_queue (+) SetToBag({[id |-> id]})
    /\ outcome' = Outcome("process_bulk_notification_task_delay", "", id, "", 0, 0)
    /\ UNCHANGED bulk_notifications
    /\ UNCHANGED notification_vars

\* update_bulk_notification_status (tasks.py:210-244): the aggregate at
\* line 225 evaluates Notification.NotificationStatus.SENT and raises
\* AttributeError; the only handler is for DoesNotExist, so the task fails
\* before it sets a counter or a status and before the save at line 241
update_bulk_notification_status(id) ==
    /\ IF id \in BulkIds
       THEN outcome' = Outcome("update_bulk_notification_status", "AttributeError", id,
                               bulk_notifications[id].status, 0, 0)
       ELSE outcome' = Outcome("update_bulk_notification_status", "DoesNotExist", id, "", 0, 0)
    /\ UNCHANGED <<bulk_notifications, bulk_queue>>
    /\ UNCHANGED notification_vars

NextBulk ==
    \/ \E m \in Merchants, valid \in BOOLEAN :
          send_bulk_notification(m, valid) /\ UNCHANGED <<campaign_vars, throttle_vars, account_vars>>
    \/ \E m \in Merchants, id \in 1..MaxBulk :
          cancel_bulk_notification(m, id) /\ UNCHANGED <<campaign_vars, throttle_vars, account_vars>>
    \/ \E m \in BagToSet(bulk_queue) :
          process_bulk_notification_task(m) /\ UNCHANGED <<campaign_vars, throttle_vars, account_vars>>
    \/ \E id \in 1..MaxBulk :
          process_bulk_notification_task_delay(id) /\ UNCHANGED <<campaign_vars, throttle_vars, account_vars>>
    \/ \E id \in 1..MaxBulk :
          update_bulk_notification_status(id) /\ UNCHANGED <<campaign_vars, throttle_vars, account_vars>>

SpecBulk == Init /\ [][NextBulk]_vars

\* ------------------------------------------------------------------------
\* campaigns/serializers.py
\* ------------------------------------------------------------------------
CampaignStatuses == {"draft", "scheduled", "running", "paused", "completed", "cancelled"}
CampaignIds == 1..Len(campaigns)

\* one recipients_data entry: the keys _extract_recipient looks at, "" for
\* a key that is absent or empty
RecipientData(email, Email, phone) ==
    [email |-> email, Email |-> Email, phone |-> phone, Phone |-> "",
     device_token |-> "", Device_Token |-> "", whatsapp |-> "", WhatsApp |-> ""]

\* entries offered to create_campaign: address a under key email, address a
\* under key Email, address b, and an entry with a phone number only
RecipientEntries ==
    { RecipientData("a", "", ""), RecipientData("", "a", ""),
      RecipientData("b", "", ""), RecipientData("", "", "p") }

RECURSIVE SeqsUpTo(_, _)
SeqsUpTo(S, n) ==
    IF n = 0 THEN {<<>>}
    ELSE LET shorter == SeqsUpTo(S, n - 1)
         IN  shorter \cup {Append(q, x) : q \in shorter, x \in S}

\* Python's `x or y` on strings
Or(x, y) == IF x # "" THEN x ELSE y

\* CreateCampaignSerializer._extract_recipient; "" stands for None
_extract_recipient(recipient_data, channel) ==
    CASE channel = "email" -> Or(recipient_data.email, recipient_data.Email)
      [] channel = "sms" -> Or(recipient_data.phone, recipient_data.Phone)
      [] channel = "push" -> Or(recipient_data.device_token, recipient_data.Device_Token)
      [] channel = "whatsapp" ->
            Or(Or(recipient_data.whatsapp, recipient_data.WhatsApp), recipient_data.phone)
      [] OTHER -> ""

\* the recipient_objects list built at serializers.py:164-172
RECURSIVE recipient_objects(_, _)
recipient_objects(recipients_data, channel) ==
    IF recipients_data = <<>> THEN <<>>
    ELSE LET recipient == _extract_recipient(Head(recipients_data), channel)
             rest == recipient_objects(Tail(recipients_data), channel)
         IN  IF recipient # "" THEN <<recipient>> \o rest ELSE rest

\* unique_together = ['campaign', 'recipient'] over the rows of one
\* bulk_create for a new campaign
unique_together(addresses) ==
    \A i, j \in 1..Len(addresses) : addresses[i] = addresses[j] => i = j

NewCampaign(channel) ==
    [channel |-> channel, status |-> "draft", started_at |-> FALSE, completed_at |-> FALSE,
     estimated_recipients |-> 0, total_sent |-> 0, total_delivered |-> 0, total_failed |-> 0]

NewRecipient(campaign, address) ==
    [campaign |-> campaign, recipient |-> address, status |-> "pending", notification |-> 0]

RECURSIVE NewRecipients(_, _)
NewRecipients(campaign, addresses) ==
    IF addresses = <<>> THEN <<>>
    ELSE <<NewRecipient(campaign, Head(addresses))>> \o NewRecipients(campaign, Tail(addresses))

\* CampaignListCreateView POST -> CreateCampaignSerializer.create
\* (serializers.py:102-177): the campaign row and its template are created
\* first; _process_recipients then bulk-creates the recipient rows in one
\* INSERT, which the unique_together constraint rejects as a whole when two
\* entries resolve to the same address.  The IntegrityError leaves create()
\* uncaught (500) after the campaign row was stored (no transaction wraps
\* create), before estimated_recipients is set and before the 'created' event.
create_campaign(channel, recipients_data) ==
    LET id == Len(campaigns) + 1
        objects == recipient_objects(recipients_data, channel)
    IN  /\ Len(campaigns) < MaxCampaigns
        /\ IF objects = <<>>
           THEN /\ campaigns' = Append(campaigns, NewCampaign(channel))
                /\ campaign_events' = Append(campaign_events, <<"created">>)
                /\ UNCHANGED recipients
                /\ outcome' = Outcome("create_campaign", "201", id, "", 0, 0)
           ELSE IF unique_together(objects)
           THEN /\ campaigns' = Append(campaigns,
                        [NewCampaign(channel) EXCEPT !.estimated_recipients = Len(objects)])
                /\ campaign_events' = Append(campaign_events, <<"created">>)
                /\ recipients' = recipients \o NewRecipients(id, objects)
                /\ outcome' = Outcome("create_campaign", "201", id, "", 0, 0)
           ELSE /\ campaigns' = Append(campaigns, NewCampaign(channel))
                /\ campaign_events' = Append(campaign_events, <<>>)
                /\ UNCHANGED recipients
                /\ outcome' = Outcome("create_campaign", "500", id, "", 0, 0)
        /\ UNCHANGED <<metrics_running, pausing>>

\* ------------------------------------------------------------------------
\* campaigns/views.py
\* ------------------------------------------------------------------------
\* CampaignDetailView PUT/PATCH (views.py:45-53) through
\* CampaignDetailSerializer: 'status' is listed in Meta.fields and not in
\* read_only_fields (serializers.py:50-64), so the request body may set it
update_campaign(id, status) ==
    /\ IF id \in CampaignIds
       THEN /\ campaigns' = [campaigns EXCEPT ![id].status = status]
            /\ outcome' = Outcome("update_campaign", "200", id, campaigns[id].status, 0, 0)
       ELSE /\ UNCHANGED campaigns
            /\ outcome' = Outcome("update_campaign", "404", id, "", 0, 0)
    /\ UNCHANGED <<campaign_events, recipients, metrics_running, pausing>>

\* launch_campaign, pause_campaign, resume_campaign, cancel_campaign
\* (views.py:66-241): after get_object_or_404 each view's status test
\* (lines 78, 141, 180, 219) evaluates Campaign.CampaignStatus and raises
\* AttributeError: 500, nothing written, no task queued
campaign_action(op, id) ==
    /\ IF id \in CampaignIds
       THEN outcome' = Outcome(op, "500", id, campaigns[id].status, 0, 0)
       ELSE outcome' = Outcome(op, "404", id, "", 0, 0)
    /\ UNCHANGED campaign_vars

launch_campaign(id) == campaign_action("launch_campaign", id)
pause_campaign(id) == campaign_action("pause_campaign", id)
resume_campaign(id) == campaign_action("resume_campaign", id)
cancel_campaign(id) == campaign_action("cancel_campaign", id)

\* ------------------------------------------------------------------------
\* campaigns/tasks.py
\* ------------------------------------------------------------------------
NotificationsOf(id) == {n \in NotificationIds : notifications[n].campaign_id = id}
RecipientsOf(id) == {r \in 1..Len(recipients) : recipients[r].campaign = id}

\* the step before this one ended a run of update_campaign_metrics_task for
\* campaign id
MetricsRunEnded(id) ==
    /\ outcome.op = "update_campaign_metrics_task"
    /\ outcome.result \in {"saved", "AttributeError"}
    /\ outcome.id = id

\* update_campaign_metrics_task, line 187: load the campaign row.  The key
\* of the outcome is 1 when this run starts right after another run for the
\* same campaign has ended.
update_campaign_metrics_task_get(id) ==
    /\ IF id \in CampaignIds
       THEN /\ BagCardinality(metrics_running) < MaxInFlight
            /\ metrics_running' = metrics_running (+) SetToBag({[id |-> id, campaign |-> campaigns[id]]})
            /\ outcome' = Outcome("update_campaign_metrics_task", "loaded", id, campaigns[id].status,
                                  0, IF MetricsRunEnded(id) THEN 1 ELSE 0)
       ELSE /\ UNCHANGED metrics_running
            /\ outcome' = Outcome("update_campaign_metrics_task", "DoesNotExist", id, "", 0, 0)
    /\ UNCHANGED <<campaigns, campaign_events, recipients, pausing>>

\* the aggregate counting every notification of the campaign, whatever its
\* status
metrics_of_any_status(id) ==
    [total_sent |-> Cardinality(NotificationsOf(id)),
     total_delivered |-> Cardinality(NotificationsOf(id)),
     total_failed |-> Cardinality(NotificationsOf(id))]
\* notifications.aggregate(...), lines 197-203
metrics(id) ==
    [total_sent |-> Cardinality({n \in NotificationsOf(id) :
                                    notifications[n].status \in {"sent", "delivered"}}),
     total_delivered |-> Cardinality({n \in NotificationsOf(id) :
                                    notifications[n].status = "delivered"}),
     total_failed |-> Cardinality({n \in NotificationsOf(id) :
                                    notifications[n].status = "failed"})]

\* the counters raised by the number of the campaign's notifications
\* instead of being set
campaign_metrics_added(campaign, id) ==
    [campaign EXCEPT !.total_sent = @ + Cardinality(NotificationsOf(id)),
                     !.total_delivered = @ + Cardinality(NotificationsOf(id)),
                     !.total_failed = @ + Cardinality(NotificationsOf(id))]
\* lines 206-208: the loaded row with the counters set to the aggregate
campaign_metrics(campaign, id) ==
    [campaign EXCEPT !.total_sent = metrics(id).total_sent,
                     !.total_delivered = metrics(id).total_delivered,
                     !.total_failed = metrics(id).total_failed]

\* update_campaign_metrics_task, lines 190-239: aggregate the notifications
\* whose metadata names the campaign, count the recipients, then either
\*   - total_recipients >= expected_recipients: line 217 evaluates
\*     Campaign.CampaignStatus.COMPLETED and raises AttributeError, caught
\*     at line 238; neither the event nor the save is reached; or
\*   - campaign.save() at line 232 writes the loaded row with the new counters
\* The key of the outcome is 1 when the run was the second of two in a row.
update_campaign_metrics_task_save(t) ==
    LET total_recipients == Cardinality({r \in RecipientsOf(t.id) :
                                recipients[r].status \in {"sent", "delivered", "failed"}})
        expected_recipients == Cardinality(RecipientsOf(t.id))
        \* this execution is the one the step before loaded (it holds the
        \* stored row), and that step came right after a run
        second == IF outcome.op = "update_campaign_metrics_task"
                     /\ outcome.result = "loaded" /\ outcome.id = t.id
                     /\ t.campaign = campaigns[t.id]
                  THEN outcome.key ELSE 0
    IN  /\ BagIn(t, metrics_running)
        /\ metrics_running' = metrics_running (-) SetToBag({t})
        /\ IF total_recipients >= expected_recipients
           THEN /\ UNCHANGED campaigns
                /\ outcome' = Outcome("update_campaign_metrics_task", "AttributeError",
                                      t.id, t.campaign.status, 0, second)
           ELSE /\ campaigns' = [campaigns EXCEPT ![t.id] = campaign_metrics(t.campaign, t.id)]
                /\ outcome' = Outcome("update_campaign_metrics_task", "saved",
                                      t.id, t.campaign.status, 0, second)
        /\ UNCHANGED <<campaign_events, recipients, pausing>>

\* process_scheduled_campaigns (tasks.py:242-264): line 249 evaluates
\* Campaign.CampaignStatus.SCHEDULED while building the filter and raises
\* before any row is read; id is a scheduled campaign that is due at `now`,
\* 0 when there is none
process_scheduled_campaigns(id) ==
    /\ id # 0 => (id \in CampaignIds /\ campaigns[id].status = "scheduled")
    /\ outcome' = Outcome("process_scheduled_campaigns", "AttributeError", id, "", 0, 0)
    /\ UNCHANGED campaign_vars

\* sync_campaign_recipient_status (tasks.py:352-395): line 363 evaluates
\* models.F, and campaigns/tasks.py imports no name `models`: NameError
\* before any row is read
sync_campaign_recipient_status ==
    /\ outcome' = Outcome("sync_campaign_recipient_status", "NameError", 0, "", 0, 0)
    /\ UNCHANGED campaign_vars

\* a handler that stored the status it means to store
launch_failed_cancelled(rows, id) == [rows EXCEPT ![id].status = "cancelled"]

\* the handler of launch_campaign_task (tasks.py:120-135): the right-hand
\* side of line 126, Campaign.CampaignStatus.CANCELLED, raises
\* AttributeError before the assignment, and the bare except at 134 passes:
\* the campaign rows are as they were
launch_failed(rows, id) == rows

\* launch_campaign_task (tasks.py:12-135): after Campaign.objects.get the
\* status test at line 21 evaluates Campaign.CampaignStatus and raises
\* AttributeError; the handler at lines 120-135 evaluates
\* Campaign.CampaignStatus.CANCELLED at line 126, and that second
\* AttributeError is swallowed by the bare except: nothing is written
launch_campaign_task(id) ==
    /\ IF id \in CampaignIds
       THEN /\ outcome' = Outcome("launch_campaign_task", "AttributeError", id,
                                  campaigns[id].status, 0, 0)
            /\ campaigns' = launch_failed(campaigns, id)
       ELSE /\ outcome' = Outcome("launch_campaign_task", "DoesNotExist", id, "", 0, 0)
            /\ UNCHANGED campaigns
    /\ UNCHANGED <<campaign_events, recipients, metrics_running, pausing>>

\* the rows of Notification.objects.filter(metadata__campaign_id=...,
\* status='pending') as fetched when the for loop starts iterating
pending_notifications(id) ==
    {[id |-> n, row |-> notifications[n]] :
        n \in {k \in NotificationsOf(id) : notifications[k].status = "pending"}}

\* the pause_campaign_task runs of a campaign, finished or in progress
pause_runs(id) ==
    Cardinality({i \in 1..Len(campaign_events[id]) : campaign_events[id][i] = "paused"})
        + BagCardinality(pausing)

\* pause_campaign_task, lines 144-153: load the campaign and fetch the
\* pending notifications of the campaign (at most MaxPauses runs)
pause_campaign_task_get(id) ==
    /\ IF id \in CampaignIds
       THEN /\ pause_runs(id) < MaxPauses
            /\ pausing' = pausing (+) SetToBag({[campaign |-> id,
                                                 todo |-> pending_notifications(id)]})
       ELSE UNCHANGED pausing
    /\ outcome' = Outcome("pause_campaign_task", "", 0, "", 0, 0)
    /\ UNCHANGED <<campaigns, campaign_events, recipients, metrics_running>>
    /\ UNCHANGED notification_vars

\* pause_campaign_task, lines 153-164, one iteration: set the fetched
\* object's status to cancelled, save it (every column, from the fetched
\* object) and append the cancelled event
pause_campaign_task_cancel(p, n) ==
    /\ BagIn(p, pausing) /\ n \in p.todo
    /\ notifications' = [notifications EXCEPT ![n.id] = [n.row EXCEPT !.status = "cancelled"]]
    /\ events' = [events EXCEPT ![n.id] = NotificationEvent_create(@, "cancelled")]
    /\ pausing' = (pausing (-) SetToBag({p}))
                    (+) SetToBag({[p EXCEPT !.todo = @ \ {n}]})
    /\ outcome' = Outcome("pause_campaign_task", "", 0, "", 0, 0)
    /\ UNCHANGED <<campaigns, campaign_events, recipients, metrics_running>>
    /\ UNCHANGED <<requests, queue, running, provider_calls, attempts>>

\* pause_campaign_task, lines 166-173: after the loop, the paused event
pause_campaign_task_event(p) ==
    /\ BagIn(p, pausing) /\ p.todo = {}
    /\ pausing' = pausing (-) SetToBag({p})
    /\ campaign_events' = [campaign_events EXCEPT ![p.campaign] = Append(@, "paused")]
    /\ outcome' = Outcome("pause_campaign_task", "", 0, "", 0, 0)
    /\ UNCHANGED <<campaigns, recipients, metrics_running>>
    /\ UNCHANGED notification_vars

\* ------------------------------------------------------------------------
\* Specification of the campaign orchestration
\* ------------------------------------------------------------------------
CampaignChannels == {"email"}
\* send_notification bodies whose metadata names campaign 1
CampaignSendRequests == { [merchant |-> 1, key |-> 0, campaign |-> 1] }

NextCampaign ==
    \/ \E channel \in CampaignChannels, input \in SeqsUpTo(RecipientEntries, MaxInput) :
          create_campaign(channel, input) /\ UNCHANGED <<notification_vars, throttle_vars, account_vars, bulk_vars>>
    \/ \E id \in 1..MaxCampaigns, status \in CampaignStatuses :
          update_campaign(id, status) /\ UNCHANGED <<notification_vars, throttle_vars, account_vars, bulk_vars>>
    \/ \E id \in 1..MaxCampaigns : launch_campaign(id) /\ UNCHANGED <<notification_vars, throttle_vars, account_vars, bulk_vars>>
    \/ \E id \in 1..MaxCampaigns : pause_campaign(id) /\ UNCHANGED <<notification_vars, throttle_vars, account_vars, bulk_vars>>
    \/ \E id \in 1..MaxCampaigns : resume_campaign(id) /\ UNCHANGED <<notification_vars, throttle_vars, account_vars, bulk_vars>>
    \/ \E id \in 1..MaxCampaigns : cancel_campaign(id) /\ UNCHANGED <<notification_vars, throttle_vars, account_vars, bulk_vars>>
    \/ \E id \in 1..MaxCampaigns :
          update_campaign_metrics_task_get(id) /\ UNCHANGED <<notification_vars, throttle_vars, account_vars, bulk_vars>>
    \/ \E t \in BagToSet(metrics_running) :
          update_campaign_metrics_task_save(t) /\ UNCHANGED <<notification_vars, throttle_vars, account_vars, bulk_vars>>
    \/ \E id \in 0..MaxCampaigns :
          process_scheduled_campaigns(id) /\ UNCHANGED <<notification_vars, throttle_vars, account_vars, bulk_vars>>
    \/ sync_campaign_recipient_status /\ UNCHANGED <<notification_vars, throttle_vars, account_vars, bulk_vars>>
    \/ \E id \in 1..MaxCampaigns :
          launch_campaign_task(id) /\ UNCHANGED <<notification_vars, throttle_vars, account_vars, bulk_vars>>
    \/ \E r \in CampaignSendRequests :
          send_notification_validate(r.merchant, r.key, r.campaign, TRUE) /\ UNCHANGED <<campaign_vars, throttle_vars, account_vars, bulk_vars>>
    \/ \E r \in BagToSet(requests) : send_notification_create(r) /\ UNCHANGED <<campaign_vars, throttle_vars, account_vars, bulk_vars>>

SpecCampaign == Init /\ [][NextCampaign]_vars

\* ------------------------------------------------------------------------
\* Specification of the campaign orchestration with workers that keep
\* running: a request that was sent is answered, and the reconciliation
\* tasks are run again and again
\* ------------------------------------------------------------------------
FairLaunch ==
    \E id \in 1..MaxCampaigns :
        launch_campaign(id) /\ UNCHANGED <<notification_vars, throttle_vars, account_vars, bulk_vars>>
FairMetricsGet ==
    \E id \in 1..MaxCampaigns :
        update_campaign_metrics_task_get(id) /\ UNCHANGED <<notification_vars, throttle_vars, account_vars, bulk_vars>>
FairMetricsSave ==
    \E t \in BagToSet(metrics_running) :
        update_campaign_metrics_task_save(t) /\ UNCHANGED <<notification_vars, throttle_vars, account_vars, bulk_vars>>
FairSync ==
    sync_campaign_recipient_status /\ UNCHANGED <<notification_vars, throttle_vars, account_vars, bulk_vars>>

FairCampaign ==
    /\ WF_vars(FairLaunch)
    /\ WF_vars(FairMetricsGet)
    /\ WF_vars(FairMetricsSave)
    /\ WF_vars(FairSync)

SpecCampaignFair == SpecCampaign /\ FairCampaign

\* ------------------------------------------------------------------------
\* Specification of the Celery workers: besides the messages the views
\* queue, a worker runs any message it is handed for a registered task
\* ------------------------------------------------------------------------
\* send_notification_task.delay(notification_id) for a pending notification,
\* while fewer than MaxInFlight dispatches are queued or running
send_notification_task_delay(id) ==
    /\ id \in NotificationIds
    /\ notifications[id].status = "pending"
    /\ BagCardinality(queue) + BagCardinality(running) < MaxInFlight
    /\ queue' = queue (+) SetToBag({[id |-> id, retries |-> 0]})
    /\ outcome' = Outcome("send_notification_task", "", 0, "", 0, 0)
    /\ UNCHANGED <<notifications, events, requests, running, provider_calls, attempts>>

NextWorkers ==
    \/ \E channel \in CampaignChannels, input \in SeqsUpTo(RecipientEntries, 0) :
          create_campaign(channel, input) /\ UNCHANGED <<notification_vars, throttle_vars, account_vars, bulk_vars>>
    \/ \E r \in CampaignSendRequests :
          send_notification_validate(r.merchant, r.key, r.campaign, TRUE)
             /\ UNCHANGED <<campaign_vars, throttle_vars, account_vars, bulk_vars>>
    \/ \E r \in BagToSet(requests) :
          send_notification_create(r) /\ UNCHANGED <<campaign_vars, throttle_vars, account_vars, bulk_vars>>
    \/ \E id \in 1..MaxNotifications :
          send_notification_task_delay(id) /\ UNCHANGED <<campaign_vars, throttle_vars, account_vars, bulk_vars>>
    \/ \E m \in BagToSet(queue) :
          send_notification_task_get(m) /\ UNCHANGED <<campaign_vars, throttle_vars, account_vars, bulk_vars>>
    \/ \E t \in BagToSet(running) :
          send_notification_task_processing(t) /\ UNCHANGED <<campaign_vars, throttle_vars, account_vars, bulk_vars>>
    \/ \E t \in BagToSet(running), result \in ProviderResults \ {"no_provider"} :
          send_notification_task_send(t, result) /\ UNCHANGED <<campaign_vars, throttle_vars, account_vars, bulk_vars>>
    \/ \E id \in 1..MaxCampaigns :
          launch_campaign_task(id) /\ UNCHANGED <<notification_vars, throttle_vars, account_vars, bulk_vars>>
    \/ \E id \in 1..MaxCampaigns : pause_campaign_task_get(id) /\ UNCHANGED <<throttle_vars, account_vars, bulk_vars>>
    \/ \E p \in BagToSet(pausing) : \E n \in p.todo :
          pause_campaign_task_cancel(p, n) /\ UNCHANGED <<throttle_vars, account_vars, bulk_vars>>
    \/ \E p \in BagToSet(pausing) : pause_campaign_task_event(p) /\ UNCHANGED <<throttle_vars, account_vars, bulk_vars>>

SpecWorkers == Init /\ [][NextWorkers]_vars

\* ------------------------------------------------------------------------
\* Specification of the rate limiters, for limits up to MaxRate
\* ------------------------------------------------------------------------
InitThrottle ==
    /\ InitEngine
    /\ InitCache
    /\ selection = NoSelection
    /\ rate \in [CacheKeys -> 0..MaxRate]

NextThrottle ==
    \/ \E k \in CacheKeys : is_allowed_get(k)
    \/ is_allowed_incr
    \/ \E d \in Ticks : Advance(d)

SpecThrottle == InitThrottle /\ [][NextThrottle]_vars

\* the throttles called by concurrent workers
NextThrottleConcurrent ==
    \/ \E k \in CacheKeys : is_allowed_get_concurrent(k)
    \/ \E c \in BagToSet(callers) : is_allowed_incr_concurrent(c)
    \/ \E d \in Ticks : Advance(d)

SpecThrottleConcurrent == InitThrottle /\ [][NextThrottleConcurrent]_vars

\* ------------------------------------------------------------------------
\* Specification of dispatch next to a provider throttle: notifications are
\* sent and dispatched while ProviderRateThrottle('email').is_allowed is
\* being called
\* ------------------------------------------------------------------------
ProviderKey == "provider_rate_email"
ThrottledSendRequests == { [merchant |-> 1, key |-> 0, campaign |-> 0] }

NextThrottledDispatch ==
    \/ \E r \in ThrottledSendRequests :
          send_notification_validate(r.merchant, r.key, r.campaign, TRUE)
             /\ UNCHANGED <<campaign_vars, throttle_vars, account_vars, bulk_vars>>
    \/ \E r \in BagToSet(requests) :
          send_notification_create(r) /\ UNCHANGED <<campaign_vars, throttle_vars, account_vars, bulk_vars>>
    \/ \E m \in BagToSet(queue) :
          send_notification_task_get(m) /\ UNCHANGED <<campaign_vars, throttle_vars, account_vars, bulk_vars>>
    \/ \E t \in BagToSet(running) :
          send_notification_task_processing(t) /\ UNCHANGED <<campaign_vars, throttle_vars, account_vars, bulk_vars>>
    \/ \E t \in BagToSet(running), result \in ProviderResults \ {"no_provider"} :
          send_notification_task_send(t, result) /\ UNCHANGED <<campaign_vars, throttle_vars, account_vars, bulk_vars>>
    \/ is_allowed_get(ProviderKey)
    \/ is_allowed_incr

SpecThrottledDispatch == InitThrottle /\ [][NextThrottledDispatch]_vars

\* ------------------------------------------------------------------------
\* Specification of the notification engine with workers and a beat
\* scheduler that keep running: a queued dispatch is executed, a started
\* one goes on, and both sweeps are run again and again
\* ------------------------------------------------------------------------
FairDispatchGet ==
    \E m \in BagToSet(queue) :
        send_notification_task_get(m) /\ UNCHANGED <<campaign_vars, throttle_vars, account_vars, bulk_vars>>
FairDispatchProcessing ==
    \E t \in BagToSet(running) :
        send_notification_task_processing(t) /\ UNCHANGED <<campaign_vars, throttle_vars, account_vars, bulk_vars>>
FairDispatchSend ==
    \E t \in BagToSet(running), result \in ProviderResults :
        send_notification_task_send(t, result) /\ UNCHANGED <<campaign_vars, throttle_vars, account_vars, bulk_vars>>
FairRetrySweep ==
    retry_failed_notifications /\ UNCHANGED <<campaign_vars, throttle_vars, account_vars, bulk_vars>>
FairScheduledSweep ==
    \E id \in 0..MaxNotifications :
        process_scheduled_notifications(id) /\ UNCHANGED <<campaign_vars, throttle_vars, account_vars, bulk_vars>>
FairEngine ==
    /\ WF_vars(FairDispatchGet)
    /\ WF_vars(FairDispatchProcessing)
    /\ WF_vars(FairDispatchSend)
    /\ WF_vars(FairRetrySweep)
    /\ WF_vars(FairScheduledSweep)

SpecEngineFair == Spec /\ FairEngine

\* ------------------------------------------------------------------------
\* Specification of provider selection: get_provider_for_channel applied to
\* the Provider tables and the preferences a deployment may hold
\* ------------------------------------------------------------------------
\* the call's arguments: a Provider table, a channel, and the merchant's
\* preference for that channel
InitProviders ==
    /\ InitEngine
    /\ InitCache
    /\ rate = [k \in CacheKeys |-> Throttle(k).default_rate]
    /\ \E table \in ProviderTables, channel \in Channels, preferred \in PreferredNames :
          selection = [table |-> table, channel |-> channel, preferred |-> preferred,
                       config |-> {}, result |-> ""]

NextProviders ==
    /\ selection.result = ""
    /\ get_provider_for_channel(selection.table, selection.channel, selection.preferred)
    /\ UNCHANGED <<notification_vars, campaign_vars, throttle_vars, bulk_vars>>

SpecProviders == InitProviders /\ [][NextProviders]_vars

\* ------------------------------------------------------------------------
\* Specification of the usage counters: update_merchant_usage called by
\* concurrent workers
\* ------------------------------------------------------------------------
NextUsage ==
    \/ \E m \in Merchants, channel \in Channels :
          update_merchant_usage_get(m, channel)
             /\ UNCHANGED <<notification_vars, campaign_vars, throttle_vars, bulk_vars>>
    \/ \E u \in BagToSet(usage_running) :
          update_merchant_usage_save(u)
             /\ UNCHANGED <<notification_vars, campaign_vars, throttle_vars, bulk_vars>>
    \/ NextDay /\ UNCHANGED <<notification_vars, campaign_vars, throttle_vars, bulk_vars>>

SpecUsage == Init /\ [][NextUsage]_vars

\* ------------------------------------------------------------------------
\* Properties of the notification engine
\* ------------------------------------------------------------------------
\* no send_notification_task message or execution is left for notification id
Quiescent(id) ==
    /\ \A m \in BagToSet(queue) : m.id # id
    /\ \A t \in BagToSet(running) : t.id # id

C1_UniqueRows ==
    \A i, j \in NotificationIds :
        ( /\ notifications[i].idempotency_key # 0
          /\ notifications[i].merchant = notifications[j].merchant
          /\ notifications[i].idempotency_key = notifications[j].idempotency_key )
        => i = j

\* a valid send_notification call that starts when a row with its
\* (merchant, idempotency_key) is stored
C1_SecondCall ==
    /\ outcome'.op = "send_notification"
    /\ outcome'.result \in {"200", "validated"}
    /\ outcome'.key # 0
    /\ ExistingNotification(notifications, outcome'.merchant, outcome'.key) # 0

\* C1: two send_notification calls with the same (merchant, idempotency_key)
\* never produce two rows, and a call made when a row with that pair exists
\* creates nothing, enqueues no dispatch task and answers 200 with the
\* existing notification
C1_IdempotentSend ==
    /\ []C1_UniqueRows
    /\ [][ C1_SecondCall =>
             /\ outcome'.result = "200"
             /\ outcome'.id = ExistingNotification(notifications, outcome'.merchant, outcome'.key)
             /\ UNCHANGED <<notifications, events, requests, queue, running>> ]_vars

\* a second call was answered with the stored notification while the other
\* merchant holds a row with the same key
C1_Witness ==
    /\ outcome.op = "send_notification" /\ outcome.result = "200"
    /\ Len(notifications) = 2
    /\ notifications[1].idempotency_key = notifications[2].idempotency_key
    /\ notifications[outcome.id].merchant = outcome.merchant

\* C6: cancel_notification on a pending notification makes it cancelled and
\* appends a cancelled event; on any other status it is rejected (400) with
\* the status named
C6_CancelOnlyPending ==
    (outcome.op = "cancel_notification" /\ outcome.result # "404") =>
        IF outcome.pre = "pending"
        THEN /\ outcome.result = "200"
             /\ notifications[outcome.id].status = "cancelled"
             /\ events[outcome.id][Len(events[outcome.id])] = "cancelled"
        ELSE outcome.result = "400"

\* C10: once no dispatch work is left for a notification whose provider
\* failed k <= max_retries times and then succeeded, the notification is
\* sent and its retry_count is k
C10_FailThenSucceed ==
    \A id \in NotificationIds :
        ( /\ Quiescent(id)
          /\ attempts[id].success >= 1
          /\ attempts[id].failure <= notifications[id].max_retries )
        => /\ notifications[id].status = "sent"
           /\ notifications[id].retry_count = attempts[id].failure

\* C11: when a dispatch found no active provider for the channel, the
\* notification is failed with retry_count 0 and a failed event, and no
\* further dispatch of it is queued.
C11_NoProviderFails ==
    (outcome.op = "send_notification_task" /\ outcome.result = "no_provider")
        => /\ notifications[outcome.id].status = "failed"
           /\ notifications[outcome.id].retry_count = 0
           /\ \E i \in 1..Len(events[outcome.id]) : events[outcome.id][i] = "failed"
           /\ \A m \in BagToSet(queue) : m.id # outcome.id

\* C22: a dispatch whose provider accepts the message leaves the notification
\* sent, with exactly one sent event.
C22_SuccessIsSent ==
    (outcome.op = "send_notification_task" /\ outcome.result = "success")
        => /\ notifications[outcome.id].status = "sent"
           /\ Cardinality({i \in 1..Len(events[outcome.id]) :
                               events[outcome.id][i] = "sent"}) = 1

\* C23: a dispatch whose provider answers with a failure adds one to
\* retry_count and leaves the notification pending while retry_count is
\* below max_retries, and stores failed once retry_count has reached
\* max_retries.
C23_RetryableFailure ==
    [][\A t \in BagToSet(running) :
          ( /\ running' = running (-) SetToBag({t})
            /\ outcome' = Outcome("send_notification_task", "failure", t.id, "", 0, 0) )
          => IF notifications[t.id].retry_count < notifications[t.id].max_retries
             THEN /\ notifications'[t.id].status = "pending"
                  /\ notifications'[t.id].retry_count = notifications[t.id].retry_count + 1
             ELSE notifications'[t.id].status = "failed"]_vars

\* C25: a dispatch that comes to its provider while the provider's throttle
\* is at its limit calls no provider and puts the notification back to
\* pending with its retry_count unchanged.
C25_ThrottledStaysPending ==
    [][\A t \in BagToSet(running) :
          ( /\ t.pc = "processing"
            /\ running' = running (-) SetToBag({t})
            /\ outcome'.op = "send_notification_task"
            /\ outcome'.result \in {"success", "failure"}
            /\ over_limit(cache_get(ProviderKey), rate[ProviderKey]) )
          => /\ notifications'[t.id].status = "pending"
             /\ notifications'[t.id].retry_count = notifications[t.id].retry_count
             /\ provider_calls' = provider_calls]_vars

\* C26: a notification that is stored as processing is eventually stored as
\* pending again, with its retry_count raised.
C26_StuckRecovered ==
    \A id \in 1..MaxNotifications :
        (id \in NotificationIds /\ notifications[id].status = "processing")
            ~> ( /\ id \in NotificationIds
                 /\ notifications[id].status = "pending"
                 /\ notifications[id].retry_count >= 1 )

\* C36: every notification created by send_notification eventually is
\* stored in a status it no longer leaves: sent, cancelled, or failed with
\* its retries used up.
C36_DispatchTerminates ==
    \A id \in 1..MaxNotifications :
        (id \in NotificationIds)
            ~> ( /\ id \in NotificationIds
                 /\ \/ notifications[id].status \in {"sent", "cancelled"}
                    \/ /\ notifications[id].status = "failed"
                       /\ notifications[id].retry_count = notifications[id].max_retries )

\* C38: while the clock is before the scheduled_at of a notification, no
\* dispatch of it is queued or running, no provider has been called for
\* it, and it is pending with the scheduled event as its only event.
C38_NotBeforeScheduledAt ==
    \A id \in NotificationIds :
        notifications[id].scheduled_at > now
            => /\ \A m \in BagToSet(queue) : m.id # id
               /\ \A t \in BagToSet(running) : t.id # id
               /\ provider_calls[id] = [success |-> 0, failure |-> 0]
               /\ notifications[id].status = "pending"
               /\ events[id] = <<"scheduled">>

\* the promotion sweep has run while one scheduled notification was due
\* and another one was not yet due
C38_Witness ==
    /\ outcome.op = "process_scheduled_notifications"
    /\ outcome.id # 0
    /\ Due(outcome.id)
    /\ \E id \in NotificationIds :
          /\ notifications[id].scheduled_at > now
          /\ events[id] = <<"scheduled">>

\* the notifications whose metadata names the bulk job
BulkChildren(rows, id) ==
    {n \in 1..Len(rows) : rows[n].bulk_notification_id = id}

\* a job with one recipient row has at most one child notification, and a
\* cancelled job has none
C40_Expanded ==
    \A id \in BulkIds :
        /\ Cardinality(BulkChildren(notifications, id)) <= 1
        /\ bulk_notifications[id].status = "cancelled"
              => BulkChildren(notifications, id) = {}

\* child notifications are created only by a step that finds the job
\* pending and stores processing, and no step changes the status of a
\* cancelled job
C40_Steps ==
    \A id \in BulkIds :
        /\ BulkChildren(notifications', id) # BulkChildren(notifications, id)
              => /\ bulk_notifications[id].status = "pending"
                 /\ bulk_notifications'[id].status = "processing"
        /\ bulk_notifications[id].status = "cancelled"
              => bulk_notifications'[id].status = "cancelled"

C13_RaceReturnsExisting ==
    outcome.op = "send_notification"
        => outcome.result \in {"400", "validated", "200", "201"}

\* the event a transition to a status records: processing_started
\* (tasks.py:35-39), sent (tasks.py:59-63), failed (tasks.py:309-313),
\* cancelled (views.py:120-125, campaigns/tasks.py:158-162), retry
\* (tasks.py:197-201)
EventOf(status) ==
    CASE status = "processing" -> "processing_started"
      [] status = "pending" -> "retry"
      [] OTHER -> status

\* a step only adds events to a stored notification, and a step that
\* changes its status adds exactly the event of the new status
C32_Transitions ==
    \A id \in NotificationIds :
        /\ Len(events'[id]) >= Len(events[id])
        /\ SubSeq(events'[id], 1, Len(events[id])) = events[id]
        /\ notifications'[id].status # notifications[id].status
              => events'[id] = Append(events[id], EventOf(notifications'[id].status))

\* every failed notification has a failed event
C32_FailedHasEvent ==
    \A id \in NotificationIds :
        notifications[id].status = "failed"
            => \E i \in 1..Len(events[id]) : events[id][i] = "failed"

C14_LoadedPending ==
    \A t \in BagToSet(running) : t.pc = "loaded" => t.row.status = "pending"

\* a dispatch of a notification that is not pending only consumes its message
C14_Skip ==
    (outcome' # outcome /\ outcome'.op = "send_notification_task"
        /\ outcome'.result = "skipped")
        => /\ ~is_pending(notifications[outcome'.id])
           /\ UNCHANGED <<notifications, events, provider_calls, attempts, running, requests>>

\* C14: send_notification_task called for a notification whose status is
\* not pending makes no provider call, appends no event and leaves the row
\* unchanged.
C14_EntryCondition == []C14_LoadedPending /\ [][C14_Skip]_vars

\* a Celery retry of a dispatch found its notification in processing and
\* skipped it: the row has the one processing_started event of the first run
C14_Witness ==
    /\ outcome.op = "send_notification_task"
    /\ outcome.result = "skipped"
    /\ outcome.pre = "processing"
    /\ notifications[outcome.id].status = "processing"
    /\ events[outcome.id] = <<"created", "processing_started">>

\* ------------------------------------------------------------------------
\* Properties of the campaign orchestration
\* ------------------------------------------------------------------------
TerminalStatuses == {"sent", "delivered", "failed"}

\* every recipient of the campaign is terminal, and so is the notification
\* it links to
AllRecipientsTerminal(id) ==
    \A r \in RecipientsOf(id) :
        /\ recipients[r].status \in TerminalStatuses
        /\ recipients[r].notification # 0 =>
              notifications[recipients[r].notification].status \in TerminalStatuses

MetricsTaskDone ==
    /\ outcome.op = "update_campaign_metrics_task"
    /\ outcome.result \in {"saved", "AttributeError"}

\* C3: when update_campaign_metrics_task has run to its end on a campaign
\* that was running when the task loaded it, the campaign is completed if
\* and only if all its recipients (and their linked notifications) are
\* terminal.
C3_CompletionIff ==
    (MetricsTaskDone /\ outcome.pre = "running" /\ metrics_running = EmptyBag)
        => (campaigns[outcome.id].status = "completed" <=> AllRecipientsTerminal(outcome.id))

\* C4: when pause_campaign has answered for a campaign that was running,
\* none of the campaign's notifications is pending any more and each
\* cancelled one carries a cancelled event.  (No dispatch runs in
\* SpecCampaign, and the model has no pause work outstanding after the
\* response: the view is the only caller of pause_campaign_task.)
C4_PauseCancelsPending ==
    (outcome.op = "pause_campaign" /\ outcome.pre = "running")
        => \A n \in NotificationsOf(outcome.id) :
              /\ notifications[n].status # "pending"
              /\ notifications[n].status = "cancelled" =>
                    \E i \in 1..Len(events[n]) : events[n][i] = "cancelled"

\* C7: launch_campaign on a draft campaign leaves it running or scheduled;
\* on any other status it answers 400 and leaves the status as it was.
C7_LaunchOnlyFromDraft ==
    (outcome.op = "launch_campaign" /\ outcome.result # "404")
        => IF outcome.pre = "draft"
           THEN campaigns[outcome.id].status \in {"running", "scheduled"}
           ELSE /\ outcome.result = "400"
                /\ campaigns[outcome.id].status = outcome.pre

\* C8: no step other than the detail view's update changes the status of a
\* campaign that is completed or cancelled.
C8_TerminalCampaign ==
    [][\A id \in CampaignIds :
          (campaigns[id].status \in {"completed", "cancelled"}
                /\ outcome'.op # "update_campaign")
             => campaigns'[id].status = campaigns[id].status]_vars

\* C9: creating a campaign from a recipient list succeeds, stores exactly
\* one CampaignRecipient per distinct resolvable address and sets
\* estimated_recipients to the number of distinct addresses.
C9_BulkExpansionDedup ==
    outcome.op = "create_campaign"
        => /\ outcome.result = "201"
           /\ \A r1, r2 \in RecipientsOf(outcome.id) :
                 recipients[r1].recipient = recipients[r2].recipient => r1 = r2
           /\ campaigns[outcome.id].estimated_recipients
                 = Cardinality(RecipientsOf(outcome.id))
           /\ campaign_events[outcome.id] = <<"created">>

\* a campaign built from three entries of which two resolve has been
\* launched
C12_Launched ==
    /\ Len(campaigns) >= 1
    /\ Cardinality(RecipientsOf(1)) = 2
    /\ campaigns[1].estimated_recipients = 2
    /\ outcome.op = "launch_campaign"
    /\ outcome.id = 1

C12_Completed ==
    /\ Len(campaigns) >= 1
    /\ campaigns[1].status = "completed"
    /\ campaigns[1].total_sent = 2
    /\ campaigns[1].total_failed = 0

\* C12: once a campaign with two resolvable recipients has been launched,
\* and the tasks keep running, the campaign eventually is completed with
\* total_sent = 2 and total_failed = 0.
C12_EndToEnd == C12_Launched ~> C12_Completed

\* C15: when cancel_campaign has answered for a campaign that was running
\* or scheduled, the campaign is cancelled and has completed_at set.
C15_CancelStops ==
    (outcome.op = "cancel_campaign" /\ outcome.pre \in {"running", "scheduled"})
        => /\ campaigns[outcome.id].status = "cancelled"
           /\ campaigns[outcome.id].completed_at

\* C16: when resume_campaign has answered for a campaign that was paused,
\* the campaign is running again and no recipient of it is linked to more
\* than one notification.
C16_ResumeRemaining ==
    (outcome.op = "resume_campaign" /\ outcome.pre = "paused")
        => /\ outcome.result = "200"
           /\ campaigns[outcome.id].status = "running"
           /\ \A r1, r2 \in RecipientsOf(outcome.id) :
                 (recipients[r1].notification # 0
                    /\ recipients[r1].notification = recipients[r2].notification)
                 => r1 = r2

\* C20: when process_scheduled_campaigns has run while a scheduled
\* campaign was due, that campaign has been promoted to running.
C20_PromotedOnce ==
    (outcome.op = "process_scheduled_campaigns" /\ outcome.id # 0)
        => campaigns[outcome.id].status = "running"

CampaignEdges ==
    { <<"draft", "running">>, <<"draft", "scheduled">>,
      <<"scheduled", "running">>, <<"running", "paused">>,
      <<"paused", "running">>, <<"running", "completed">>,
      <<"running", "cancelled">>, <<"scheduled", "cancelled">> }

\* C34: every change of a campaign's status made by the operations and the
\* background tasks follows an edge of the campaign state machine.  (The
\* detail view's update, which stores whatever status the body names, is
\* left out of the statement: the operations and tasks alone break it.)
C34_StatusFollowsEdges ==
    [][\A id \in CampaignIds :
          (outcome'.op # "update_campaign"
                /\ campaigns'[id].status # campaigns[id].status)
             => <<campaigns[id].status, campaigns'[id].status>> \in CampaignEdges]_vars

\* C37: a campaign that is paused stays paused under every step other than
\* one that a client asked for (resume, cancel, or the detail view's
\* update): the metrics reconciliation, the recipient sync and the sweeps
\* leave it paused.
C37_PausedStaysPaused ==
    [][\A id \in CampaignIds :
          (campaigns[id].status = "paused"
                /\ outcome'.op \notin {"update_campaign", "resume_campaign",
                                       "cancel_campaign"})
             => campaigns'[id].status = "paused"]_vars

\* ------------------------------------------------------------------------
\* Properties of the rate limiters
\* ------------------------------------------------------------------------
\* no key admits more calls than its limit while its counter lives, and the
\* stored counter is the number of admitted calls
C5_Counted ==
    \A k \in CacheKeys :
        /\ admitted[k] <= rate[k]
        /\ cache[k].ttl > 0 => cache[k].count = admitted[k]

\* a call that starts when the limit's worth of calls has been admitted is
\* rejected and writes nothing; any other call goes on to the increment,
\* and the increment returns True
C5_Calls ==
    /\ (call' # call /\ call.pc # "checked") =>
          IF admitted[call'.key] >= rate[call'.key]
          THEN call'.pc = "returned" /\ call'.result = FALSE /\ cache' = cache
          ELSE call'.pc = "checked" /\ cache' = cache
    /\ (call' # call /\ call.pc = "checked") =>
          /\ call'.pc = "returned" /\ call'.result = TRUE
          /\ cache'[call.key].count = cache_get(call.key) + 1

\* C5: with limit N for a key, sequential is_allowed calls admit N calls
\* per window, the next call in that window is rejected without touching
\* the counter, and once the counter has expired calls are admitted again.
C5_RateLimit == []C5_Counted /\ [][C5_Calls]_vars

\* after an expiry, MaxRate calls were admitted again and the next one was
\* rejected
C5_Witness ==
    /\ call.pc = "returned"
    /\ call.result = FALSE
    /\ call.key \in CacheKeys
    /\ expired[call.key]
    /\ rate[call.key] = MaxRate
    /\ admitted[call.key] = MaxRate
    /\ cache[call.key].count = MaxRate

\* C21: when several workers call is_allowed for one key at once, the calls
\* that return True within one window and the stored counter stay within
\* the limit.
C21_AtomicAdmission ==
    \A k \in CacheKeys :
        /\ admitted[k] <= rate[k]
        /\ cache_get(k) <= rate[k]

\* ------------------------------------------------------------------------
\* Properties of the merchant accounts
\* ------------------------------------------------------------------------
\* C27: when every update_merchant_usage call of the day has returned, each
\* counter is the number of calls made for its merchant and channel.
C27_NoLostUpdate ==
    (usage_running = EmptyBag /\ today = 0)
        => \A m \in Merchants, c \in Channels :
               sent_today(settings[m], c) = usage_done[m][c]

\* C28: get_provider_for_channel returns the active provider of the channel
\* that has the merchant's preferred name when there is one, otherwise an
\* active provider of the channel with the least priority value, and None
\* when the channel has no active provider.
C28_ProviderSelection ==
    selection.result # ""
        => LET Active == {p \in selection.table :
                             p.is_active /\ p.channel = selection.channel}
               Preferred == {p \in Active : p.name = selection.preferred}
               Lowest == {p \in Active : \A q \in Active : p.priority <= q.priority}
           IN  IF Active = {}
               THEN selection.result = "None"
               ELSE /\ selection.result = "provider"
                    /\ selection.config \subseteq
                          (IF Preferred # {} THEN Preferred ELSE Lowest)
                    /\ selection.config # {}

\* ------------------------------------------------------------------------
\* Properties of the workers
\* ------------------------------------------------------------------------
\* C17: a notification stored as cancelled stays cancelled and is not sent
\* to a provider afterwards; one stored as sent or delivered keeps its
\* status.
C17_Absorbing ==
    [][\A n \in NotificationIds :
          /\ notifications[n].status = "cancelled"
                => /\ notifications'[n].status = "cancelled"
                   /\ provider_calls'[n] = provider_calls[n]
          /\ notifications[n].status \in {"sent", "delivered"}
                => notifications'[n].status = notifications[n].status]_vars

ProcessingStarted(n) ==
    Cardinality({i \in 1..Len(events[n]) : events[n][i] = "processing_started"})

\* C18: however many dispatch tasks run for a notification, it is moved to
\* processing once and handed to a provider at most once.
C18_DispatchedOnce ==
    \A n \in NotificationIds :
        /\ ProcessingStarted(n) <= 1
        /\ provider_calls[n].success + provider_calls[n].failure <= 1

\* C19: no step writes cancelled over a notification that is stored as
\* processing.
C19_PauseSparesProcessing ==
    [][\A n \in NotificationIds :
          notifications[n].status = "processing"
             => notifications'[n].status # "cancelled"]_vars

====
